---- MODULE Spec2Model ----
(***************************************************************************)
(* Model of tutorial_metadata.py: the per-line comment scanner             *)
(* (ProcessLine), the metadata aggregator (ProcessComment), the result     *)
(* classifier (assess_processing_result) and the run loop (process).       *)
(*                                                                         *)
(* Text is modelled as a sequence of ASCII codes, so that case folding,    *)
(* whitespace handling, prefix tests and sorting are computed as Python    *)
(* computes them on str values.                                            *)
(***************************************************************************)
EXTENDS Integers, Sequences, FiniteSets

\* ------------------------------------------------------------------------
\* Python str primitives
\* ------------------------------------------------------------------------

\* str.isspace() for one ASCII character, as used by \s, strip() and rstrip().
IsSpace(c) == c \in {9, 10, 11, 12, 13, 32}

\* str.lower() / str.upper() for one ASCII character.
LowerChar(c) == IF c \in 65..90 THEN c + 32 ELSE c

UpperChar(c) == IF c \in 97..122 THEN c - 32 ELSE c

\* s.lower()
lower(s) == [i \in 1..Len(s) |-> LowerChar(s[i])]

\* s.capitalize(): first character upper-cased, the rest lower-cased.
capitalize(s) ==
    [i \in 1..Len(s) |-> IF i = 1 THEN UpperChar(s[i]) ELSE LowerChar(s[i])]

\* s[n:] for 0 <= n
DropFirst(s, n) == IF n >= Len(s) THEN <<>> ELSE SubSeq(s, n + 1, Len(s))

\* s[:n] for 0 <= n
TakeFirst(s, n) == IF n >= Len(s) THEN s ELSE SubSeq(s, 1, n)

\* s.startswith(p); also the test  s.find(p) == 0
StartsWith(s, p) == Len(p) <= Len(s) /\ TakeFirst(s, Len(p)) = p

\* s.endswith(p)
EndsWith(s, p) == Len(p) <= Len(s) /\ DropFirst(s, Len(s) - Len(p)) = p

\* The number of leading characters of s, from index i on, that satisfy the
\* greedy one-character class: whitespace (\s*) when ws, else the character c.
RECURSIVE RunLength(_, _, _, _)
RunLength(s, i, ws, c) ==
    IF i > Len(s) THEN 0
    ELSE IF (ws /\ IsSpace(s[i])) \/ (~ws /\ s[i] = c)
         THEN 1 + RunLength(s, i + 1, ws, c)
         ELSE 0

\* Length of the greedy match of \s* at the start of s.
LeadingSpaces(s) == RunLength(s, 1, TRUE, 0)

\* Length of the greedy match of c+ (or c*) at the start of s.
LeadingRun(s, c) == RunLength(s, 1, FALSE, c)

\* s.rstrip()
RECURSIVE rstrip(_)
rstrip(s) ==
    IF s = <<>> THEN s
    ELSE IF IsSpace(s[Len(s)]) THEN rstrip(SubSeq(s, 1, Len(s) - 1))
    ELSE s

\* s.lstrip()
lstrip(s) == DropFirst(s, LeadingSpaces(s))

\* s.strip()
strip(s) == lstrip(rstrip(s))

\* s with every trailing repetition of the character c removed.
RECURSIVE DropTrailing(_, _)
DropTrailing(s, c) ==
    IF s = <<>> THEN s
    ELSE IF s[Len(s)] = c THEN DropTrailing(SubSeq(s, 1, Len(s) - 1), c)
    ELSE s

\* re.sub("\s+", " ", s): every maximal run of whitespace becomes one space.
RECURSIVE CollapseSpaces(_)
CollapseSpaces(s) ==
    IF s = <<>> THEN <<>>
    ELSE IF IsSpace(s[1])
         THEN <<32>> \o CollapseSpaces(DropFirst(s, LeadingSpaces(s)))
         ELSE <<s[1]>> \o CollapseSpaces(Tail(s))

\* normalise_text(string)
normalise_text(string) == CollapseSpaces(strip(string))

\* tail_after(string, head): string[len(head):]. The ValueError branch needs
\* len(string) < len(head), which no caller produces: head is always a match
\* found at the start of string.
tail_after(string, head) == DropFirst(string, Len(head))

\* Python's str ordering: lexicographic on the character codes.
RECURSIVE StrLess(_, _)
StrLess(a, b) ==
    IF b = <<>> THEN FALSE
    ELSE IF a = <<>> THEN TRUE
    ELSE IF a[1] # b[1] THEN a[1] < b[1]
    ELSE StrLess(Tail(a), Tail(b))

\* sorted(values_of_set(s))
RECURSIVE sorted(_)
sorted(s) ==
    IF s = {} THEN <<>>
    ELSE LET m == CHOOSE x \in s : \A y \in s \ {x} : StrLess(x, y)
         IN  <<m>> \o sorted(s \ {m})

\* sep.join(list)
RECURSIVE join(_, _)
join(sep, list) ==
    IF list = <<>> THEN <<>>
    ELSE IF Len(list) = 1 THEN list[1]
    ELSE list[1] \o sep \o join(sep, Tail(list))

\* The value None, where the code distinguishes it from a string.
None == <<-1>>

\* The value None, where the code holds it in place of a compiled regex.
NoMatcher == [kind |-> "none", mark |-> <<>>]

\* ------------------------------------------------------------------------
\* Comment record (class Comment)
\* ------------------------------------------------------------------------

\* Comment(lineNo, string)
Comment(lineNo, string) ==
    [lineNo |-> lineNo, current |-> string, error |-> <<>>, warning |-> <<>>,
     heading |-> <<>>, keywords |-> <<>>]

\* comment.addError(message): the message is stored as given.
addError(comment, message) == [comment EXCEPT !.error = message]

\* comment.addWarning(message): the message is stored as given.
addWarning(comment, message) == [comment EXCEPT !.warning = message]

\* comment.setCurrent(value)
setCurrent(comment, value) == [comment EXCEPT !.current = value]

\* comment.setHeading(heading)
setHeading(comment, heading) == [comment EXCEPT !.heading = heading]

\* comment.setKeywords(keywords)
setKeywords(comment, keywords) == [comment EXCEPT !.keywords = keywords]

\* ------------------------------------------------------------------------
\* Comment marks: the regular expressions of the scanner
\* ------------------------------------------------------------------------

\* A regular-expression match: group is the whole matched text (group()),
\* mark the text of the first group (group(1)).
NoMatch == [matched |-> FALSE, mark |-> <<>>, group |-> <<>>]

\* The match of  ^\s*<mark>\s*  on line, given the text the mark matched.
MarkMatch(line, mark) ==
    LET lead  == LeadingSpaces(line)
        after == DropFirst(line, lead + Len(mark))
    IN  [matched |-> TRUE, mark |-> mark,
         group |-> TakeFirst(line, lead + Len(mark) + LeadingSpaces(after))]

\* is_comment = re.compile("^\s*(#+|/\*|//|--|\(\*|;+)\s*").match
is_comment(line) ==
    LET rest == lstrip(line)
        mark == IF StartsWith(rest, <<35>>)
                    THEN TakeFirst(rest, LeadingRun(rest, 35))
                ELSE IF StartsWith(rest, <<47, 42>>) THEN <<47, 42>>
                ELSE IF StartsWith(rest, <<47, 47>>) THEN <<47, 47>>
                ELSE IF StartsWith(rest, <<45, 45>>) THEN <<45, 45>>
                ELSE IF StartsWith(rest, <<40, 42>>) THEN <<40, 42>>
                ELSE IF StartsWith(rest, <<59>>)
                    THEN TakeFirst(rest, LeadingRun(rest, 59))
                ELSE <<>>
    IN  IF mark = <<>> THEN NoMatch ELSE MarkMatch(line, mark)

\* The test shared by secondary_comment_matcher and
\* define_comment_border_regex: the mark is of a single-mark family.
IsSingleMark(initial_comment_mark) ==
    \/ TakeFirst(initial_comment_mark, 1) = <<35>>
    \/ TakeFirst(initial_comment_mark, 1) = <<59>>
    \/ TakeFirst(initial_comment_mark, 2) = <<45, 45>>
    \/ TakeFirst(initial_comment_mark, 2) = <<47, 47>>

\* single_char_comment_mark_regex(commentMark): "\s*{}\s*" with the mark
\* inserted literally; none of the marks holds a regex metacharacter.
single_char_comment_mark_regex(commentMark) ==
    [kind |-> "single", mark |-> commentMark]

\* secondary_comment_matcher(initial_comment_mark): the compiled matcher, as
\* the data that decides what it matches.
secondary_comment_matcher(initial_comment_mark) ==
    IF IsSingleMark(initial_comment_mark)
        THEN single_char_comment_mark_regex(initial_comment_mark)
    ELSE IF TakeFirst(initial_comment_mark, 2) = <<47, 42>>
        THEN [kind |-> "block", mark |-> <<47, 42>>]
    ELSE IF TakeFirst(initial_comment_mark, 2) = <<40, 42>>
        THEN [kind |-> "block", mark |-> <<40, 42>>]
    ELSE NoMatcher

\* define_comment_border_regex(initial_comment_mark): for the block families
\* mark is the optional closing character, "/" or ")".
define_comment_border_regex(initial_comment_mark) ==
    IF IsSingleMark(initial_comment_mark)
        THEN single_char_comment_mark_regex(initial_comment_mark)
    ELSE IF TakeFirst(initial_comment_mark, 2) = <<47, 42>>
        THEN [kind |-> "block", mark |-> <<47>>]
    ELSE IF TakeFirst(initial_comment_mark, 2) = <<40, 42>>
        THEN [kind |-> "block", mark |-> <<41>>]
    ELSE NoMatcher

\* isSecondComment(line): the matcher applied at the start of line.
\*   single:  ^\s*<mark>\s*
\*   block:   ^\s*(/\*|\*+)\s*   or   ^\s*(\(\*|\*+)\s*
MatchSecondary(matcher, line) ==
    LET rest == lstrip(line)
    IN  IF matcher.kind = "single"
        THEN IF StartsWith(rest, matcher.mark)
             THEN MarkMatch(line, matcher.mark) ELSE NoMatch
        ELSE IF StartsWith(rest, matcher.mark)
             THEN MarkMatch(line, matcher.mark)
        ELSE IF StartsWith(rest, <<42>>)
             THEN MarkMatch(line, TakeFirst(rest, LeadingRun(rest, 42)))
        ELSE NoMatch

\* re.sub(borderCommentRE, "", text): the border is anchored at the end of
\* the text, so at most one, leftmost, match is removed.
\*   single:  \s*<mark>\s*$
\*   block:   \s*\*+/?\s*$   or   \s*\*+\)?\s*$
SubBorder(border, text) ==
    LET t == rstrip(text)
    IN  IF border.kind = "single"
        THEN IF EndsWith(t, border.mark)
             THEN rstrip(TakeFirst(t, Len(t) - Len(border.mark)))
             ELSE text
        ELSE LET u == IF EndsWith(t, border.mark)
                      THEN TakeFirst(t, Len(t) - 1) ELSE t
             IN  IF EndsWith(u, <<42>>)
                 THEN rstrip(DropTrailing(u, 42))
                 ELSE text

\* ------------------------------------------------------------------------
\* The scanner (class ProcessLine)
\* ------------------------------------------------------------------------

\* ProcessLine(fp): the scanner's fields other than the file pointer.
NewProcessLine ==
    [lineNo |-> 0, isSecondComment |-> NoMatcher, borderCommentRE |-> NoMatcher]

\* The result of one readline inside next_comment(): either the Comment it
\* returns, or again = TRUE where the code returns self.__call__(), which
\* reads the next line.
Returned(self, comment) == [self |-> self, again |-> FALSE, comment |-> comment]

ReadAgain(self) == [self |-> self, again |-> TRUE, comment |-> Comment(0, <<>>)]

\* self.__newComment(commentText)
newComment(self, text) == Comment(self.lineNo, text)

\* self.__commentText(line, comment_mark_match)
commentText(self, line, comment_mark_match) ==
    IF comment_mark_match # NoMatch
    THEN strip(SubBorder(self.borderCommentRE,
                         tail_after(line, comment_mark_match.group)))
    ELSE None


\* Mutant of getFirstComment: a first line that is no comment is discarded
\* like a shebang line, and the next line is read.
getFirstComment_SkipsCode(self, line) ==
    LET comment_mark_match == is_comment(line)
    IN  IF comment_mark_match = NoMatch \/ TakeFirst(line, 3) = <<35, 33, 47>>
            THEN ReadAgain(self)
        ELSE
            LET comment_mark == comment_mark_match.mark
                self1 == [self EXCEPT !.borderCommentRE =
                              define_comment_border_regex(comment_mark)]
                text  == commentText(self1, line, comment_mark_match)
            IN  IF text = <<>>
                    THEN ReadAgain(self1)
                ELSE
                    LET self2 == [self1 EXCEPT !.isSecondComment =
                                    secondary_comment_matcher(comment_mark)]
                    IN  Returned(self2, newComment(self2, text))

\* self.__getFirstComment(line)
getFirstComment(self, line) ==
    LET comment_mark_match == is_comment(line)
    IN  IF comment_mark_match = NoMatch
            THEN Returned(self, newComment(self, <<>>))
        ELSE IF TakeFirst(line, 3) = <<35, 33, 47>>
            THEN ReadAgain(self)
        ELSE
            LET comment_mark == comment_mark_match.mark
                self1 == [self EXCEPT !.borderCommentRE =
                              define_comment_border_regex(comment_mark)]
                text  == commentText(self1, line, comment_mark_match)
            IN  IF text = <<>>
                    THEN ReadAgain(self1)
                ELSE
                    LET self2 == [self1 EXCEPT !.isSecondComment =
                                    secondary_comment_matcher(comment_mark)]
                    IN  Returned(self2, newComment(self2, text))

\* Mutant of getComment: a line without the secondary comment mark logs an
\* error in the Comment, as the docstring of ProcessLine.__call__ has it.
getComment_LogsError(self, line) ==
    IF self.isSecondComment = NoMatcher
    THEN getFirstComment(self, line)
    ELSE
        LET secondary_comment_mark_match ==
                MatchSecondary(self.isSecondComment, line)
            text == commentText(self, line, secondary_comment_mark_match)
        IN  IF text = <<>> THEN ReadAgain(self)
            ELSE IF text # None THEN Returned(self, newComment(self, text))
            ELSE Returned(self, addError(newComment(self, <<>>), <<63>>))

\* self.__getComment(line)
getComment(self, line) ==
    IF self.isSecondComment = NoMatcher
    THEN getFirstComment(self, line)
    ELSE
        LET secondary_comment_mark_match ==
                MatchSecondary(self.isSecondComment, line)
            text == commentText(self, line, secondary_comment_mark_match)
        IN  IF text = <<>> THEN ReadAgain(self)
            ELSE IF text # None THEN Returned(self, newComment(self, text))
            ELSE Returned(self, newComment(self, <<>>))

\* Mutant of readLine: the line read is not counted.
readLine_NoCount(self, rawLine) ==
    LET line == rstrip(rawLine)
    IN  IF line = <<>>
        THEN Returned(self, newComment(self, <<>>))
        ELSE getComment(self, line)

\* ProcessLine.__call__ for the line that readline() returns: rawLine is the
\* line without its line terminator, and the empty string at end of file.
readLine(self, rawLine) ==
    LET line  == rstrip(rawLine)
        self1 == [self EXCEPT !.lineNo = self.lineNo + 1]
    IN  IF line = <<>>
        THEN Returned(self1, newComment(self1, <<>>))
        ELSE getComment(self1, line)

\* ------------------------------------------------------------------------
\* Heading and keyword lines
\* ------------------------------------------------------------------------

\* TutorialToken is the text 'tutorial'
TutorialToken == <<116, 117, 116, 111, 114, 105, 97, 108>>

\* KWordsToken is the text 'kwords'
KWordsToken == <<107, 119, 111, 114, 100, 115>>

\* read_heading_prefix(s): the text matched by  ^\s*Tutorial\s+  (ignoring
\* case), or None.
read_heading_prefix(s) ==
    LET lead  == LeadingSpaces(s)
        rest  == DropFirst(s, lead)
        after == DropFirst(rest, Len(TutorialToken))
        gap   == LeadingSpaces(after)
    IN  IF StartsWith(lower(rest), TutorialToken) /\ gap >= 1
        THEN TakeFirst(s, lead + Len(TutorialToken) + gap)
        ELSE None

\* read_kwords_prefix(s): the text matched by  ^\s*KWords\s*:  (ignoring
\* case), or None.
read_kwords_prefix(s) ==
    LET lead  == LeadingSpaces(s)
        rest  == DropFirst(s, lead)
        after == DropFirst(rest, Len(KWordsToken))
        gap   == LeadingSpaces(after)
    IN  IF StartsWith(lower(rest), KWordsToken)
           /\ StartsWith(DropFirst(after, gap), <<58>>)
        THEN TakeFirst(s, lead + Len(KWordsToken) + gap + 1)
        ELSE None

\* re.split(",\s*", string): the pieces between the separators, a separator
\* being a comma with all the whitespace that follows it.
RECURSIVE SplitCommas(_, _)
SplitCommas(string, piece) ==
    IF string = <<>> THEN <<piece>>
    ELSE IF string[1] = 44
         THEN <<piece>> \o SplitCommas(lstrip(Tail(string)), <<>>)
         ELSE SplitCommas(Tail(string), Append(piece, string[1]))


\* Mutant of split_on_commas: the terms are not normalised.
split_on_commas_Raw(string) ==
    LET pieces == SplitCommas(string, <<>>)
    IN  { pieces[i] : i \in { j \in 1..Len(pieces) : pieces[j] # <<>> } }

\* split_on_commas(string): the terms as the set the caller adds one by one.
split_on_commas(string) ==
    LET pieces == SplitCommas(string, <<>>)
    IN  { normalise_text(pieces[i]) :
            i \in { j \in 1..Len(pieces) : pieces[j] # <<>> } }

\* ------------------------------------------------------------------------
\* The aggregator (class ProcessComment)
\* ------------------------------------------------------------------------

\* MsgKeywordsNoHeading is the text
\* 'Found keywords definition in file with no Tutorial line'
MsgKeywordsNoHeading == <<70, 111, 117, 110, 100, 32, 107, 101, 121, 119,
    111, 114, 100, 115, 32, 100, 101, 102, 105, 110, 105, 116, 105, 111,
    110, 32, 105, 110, 32, 102, 105, 108, 101, 32, 119, 105, 116, 104, 32,
    110, 111, 32, 84, 117, 116, 111, 114, 105, 97, 108, 32, 108, 105, 110,
    101>>

\* MsgShorterHeading is the text 'will use newly found, shorter heading '
MsgShorterHeading == <<119, 105, 108, 108, 32, 117, 115, 101, 32, 110, 101,
    119, 108, 121, 32, 102, 111, 117, 110, 100, 44, 32, 115, 104, 111, 114,
    116, 101, 114, 32, 104, 101, 97, 100, 105, 110, 103, 32>>

\* MsgHeading is the text 'heading '
MsgHeading == <<104, 101, 97, 100, 105, 110, 103, 32>>

\* MsgDifferent is the text " different from previous files' heading "
MsgDifferent == <<32, 100, 105, 102, 102, 101, 114, 101, 110, 116, 32, 102,
    114, 111, 109, 32, 112, 114, 101, 118, 105, 111, 117, 115, 32, 102,
    105, 108, 101, 115, 39, 32, 104, 101, 97, 100, 105, 110, 103, 32>>

\* "'%s'" % s
Quoted(s) == <<39>> \o s \o <<39>>

\* ProcessComment(): the fresh aggregator.
NewProcessComment ==
    [heading |-> <<>>, headingLC |-> <<>>, keywordsSet |-> {},
     keywordsAllowed |-> FALSE]

\* What a method of the aggregator leaves: the aggregator and the Comment.
Outcome(self, comment) == [self |-> self, comment |-> comment]

\* Mutant of tutorialHeading: the text after the prefix is taken as it is
\* written.
tutorialHeading_AsWritten(headingPrefix, commentLine) ==
    capitalize(normalise_text(headingPrefix)) \o <<32>>
        \o tail_after(commentLine, headingPrefix)

\* self.__tutorialHeading(headingPrefix, commentLine)
tutorialHeading(headingPrefix, commentLine) ==
    capitalize(normalise_text(headingPrefix)) \o <<32>>
        \o normalise_text(tail_after(commentLine, headingPrefix))

\* self.__tutorialKeywords(keywordsPrefix, commentLine)
tutorialKeywords(keywordsPrefix, commentLine) ==
    normalise_text(tail_after(commentLine, keywordsPrefix))

\* self.__keywordsToString()
keywordsToString(self) == join(<<44, 32>>, sorted(self.keywordsSet))

\* self.__storeHeading(heading)
storeHeading(self, heading) ==
    [self EXCEPT !.heading = normalise_text(heading),
                 !.headingLC = lower(normalise_text(heading))]


\* Mutant of updateHeading: the shorter heading is announced but not stored.
updateHeading_NotStored(self, newHeading, comment) ==
    IF self.heading = <<>>
        THEN Outcome(storeHeading(self, newHeading), setCurrent(comment, None))
    ELSE
        LET _newHeading == lower(newHeading)
        IN  IF self.headingLC = _newHeading
                THEN Outcome(self, setCurrent(comment, None))
            ELSE IF StartsWith(self.headingLC, _newHeading)
                THEN Outcome(self,
                             addWarning(setCurrent(comment, None),
                                 MsgShorterHeading \o Quoted(newHeading)))
            ELSE IF StartsWith(_newHeading, self.headingLC)
                THEN Outcome(self, setCurrent(comment, None))
            ELSE Outcome(self,
                         addError(comment,
                             MsgHeading \o Quoted(newHeading) \o MsgDifferent
                                 \o Quoted(self.heading) \o <<10>>))

\* Mutant of updateHeading: a heading unrelated to the stored one is let
\* through as if it were a longer restatement.
updateHeading_NoError(self, newHeading, comment) ==
    IF self.heading = <<>>
        THEN Outcome(storeHeading(self, newHeading), setCurrent(comment, None))
    ELSE
        LET _newHeading == lower(newHeading)
        IN  IF self.headingLC = _newHeading
                THEN Outcome(self, setCurrent(comment, None))
            ELSE IF StartsWith(self.headingLC, _newHeading)
                THEN Outcome(storeHeading(self, newHeading),
                             addWarning(setCurrent(comment, None),
                                 MsgShorterHeading \o Quoted(newHeading)))
            ELSE Outcome(self, setCurrent(comment, None))

\* Mutant of updateHeading: a longer compatible heading replaces the stored
\* one.
updateHeading_StoresLonger(self, newHeading, comment) ==
    IF self.heading = <<>>
        THEN Outcome(storeHeading(self, newHeading), setCurrent(comment, None))
    ELSE
        LET _newHeading == lower(newHeading)
        IN  IF self.headingLC = _newHeading
                THEN Outcome(self, setCurrent(comment, None))
            ELSE IF StartsWith(self.headingLC, _newHeading)
                THEN Outcome(storeHeading(self, newHeading),
                             addWarning(setCurrent(comment, None),
                                 MsgShorterHeading \o Quoted(newHeading)))
            ELSE IF StartsWith(_newHeading, self.headingLC)
                THEN Outcome(storeHeading(self, newHeading),
                             setCurrent(comment, None))
            ELSE Outcome(self,
                         addError(comment,
                             MsgHeading \o Quoted(newHeading) \o MsgDifferent
                                 \o Quoted(self.heading) \o <<10>>))

\* Mutant of updateHeading: the heading that raises the error is stored and
\* the current line of the Comment is set to None.
updateHeading_ErrorStores(self, newHeading, comment) ==
    IF self.heading = <<>>
        THEN Outcome(storeHeading(self, newHeading), setCurrent(comment, None))
    ELSE
        LET _newHeading == lower(newHeading)
        IN  IF self.headingLC = _newHeading
                THEN Outcome(self, setCurrent(comment, None))
            ELSE IF StartsWith(self.headingLC, _newHeading)
                THEN Outcome(storeHeading(self, newHeading),
                             addWarning(setCurrent(comment, None),
                                 MsgShorterHeading \o Quoted(newHeading)))
            ELSE IF StartsWith(_newHeading, self.headingLC)
                THEN Outcome(self, setCurrent(comment, None))
            ELSE Outcome(storeHeading(self, newHeading),
                         addError(setCurrent(comment, None),
                             MsgHeading \o Quoted(newHeading) \o MsgDifferent
                                 \o Quoted(self.heading) \o <<10>>))

\* Mutant of updateHeading: the shorter heading is stored without a warning.
updateHeading_Unreported(self, newHeading, comment) ==
    IF self.heading = <<>>
        THEN Outcome(storeHeading(self, newHeading), setCurrent(comment, None))
    ELSE
        LET _newHeading == lower(newHeading)
        IN  IF self.headingLC = _newHeading
                THEN Outcome(self, setCurrent(comment, None))
            ELSE IF StartsWith(self.headingLC, _newHeading)
                THEN Outcome(storeHeading(self, newHeading),
                             setCurrent(comment, None))
            ELSE IF StartsWith(_newHeading, self.headingLC)
                THEN Outcome(self, setCurrent(comment, None))
            ELSE Outcome(self,
                         addError(comment,
                             MsgHeading \o Quoted(newHeading) \o MsgDifferent
                                 \o Quoted(self.heading) \o <<10>>))

\* self.__updateHeading(newHeading, comment)
updateHeading(self, newHeading, comment) ==
    IF self.heading = <<>>
        THEN Outcome(storeHeading(self, newHeading), setCurrent(comment, None))
    ELSE
        LET _newHeading == lower(newHeading)
        IN  IF self.headingLC = _newHeading
                THEN Outcome(self, setCurrent(comment, None))
            ELSE IF StartsWith(self.headingLC, _newHeading)
                THEN Outcome(storeHeading(self, newHeading),
                             addWarning(setCurrent(comment, None),
                                 MsgShorterHeading \o Quoted(newHeading)))
            ELSE IF StartsWith(_newHeading, self.headingLC)
                THEN Outcome(self, setCurrent(comment, None))
            ELSE Outcome(self,
                         addError(comment,
                             MsgHeading \o Quoted(newHeading) \o MsgDifferent
                                 \o Quoted(self.heading) \o <<10>>))

\* Mutant of updateKeywords: the terms of the line replace the terms kept.
updateKeywords_Replaces(self, keywords, comment) ==
    Outcome([self EXCEPT !.keywordsSet = split_on_commas(keywords)],
            setCurrent(comment, None))


\* self.__updateKeywords(keywords, comment)
updateKeywords(self, keywords, comment) ==
    Outcome([self EXCEPT !.keywordsSet = @ \cup split_on_commas(keywords)],
            setCurrent(comment, None))


\* Mutant of ProcessComment_call: keyword lines are accepted whatever the
\* gate.
ProcessComment_call_NoGate(self, comment) ==
    LET currentCommentLine == comment.current
        headingPrefix      == read_heading_prefix(currentCommentLine)
        kwordsPrefix       == read_kwords_prefix(currentCommentLine)
    IN  IF headingPrefix # None
            THEN updateHeading([self EXCEPT !.keywordsAllowed = TRUE],
                     tutorialHeading(headingPrefix, currentCommentLine),
                     comment)
        ELSE IF kwordsPrefix # None
            THEN updateKeywords(self,
                     tutorialKeywords(kwordsPrefix, currentCommentLine),
                     comment)
        ELSE Outcome([self EXCEPT !.keywordsAllowed = FALSE],
                     setKeywords(setHeading(comment, self.heading),
                                 keywordsToString(self)))

\* Mutant of ProcessComment_call: the gate is not cleared when the block
\* closes.
ProcessComment_call_GateKept(self, comment) ==
    LET currentCommentLine == comment.current
        headingPrefix      == read_heading_prefix(currentCommentLine)
        kwordsPrefix       == read_kwords_prefix(currentCommentLine)
    IN  IF headingPrefix # None
            THEN updateHeading([self EXCEPT !.keywordsAllowed = TRUE],
                     tutorialHeading(headingPrefix, currentCommentLine),
                     comment)
        ELSE IF kwordsPrefix # None
            THEN IF ~self.keywordsAllowed
                 THEN Outcome(self,
                          addWarning(comment,
                              MsgKeywordsNoHeading \o <<58, 32>>
                                  \o Quoted(currentCommentLine)))
                 ELSE updateKeywords(self,
                          tutorialKeywords(kwordsPrefix, currentCommentLine),
                          comment)
        ELSE Outcome(self,
                     setKeywords(setHeading(comment, self.heading),
                                 keywordsToString(self)))

\* Mutant of ProcessComment_call: a comment line that is neither heading nor
\* keywords is passed over and the scan of the file goes on.
ProcessComment_call_TextPassed(self, comment) ==
    LET currentCommentLine == comment.current
        headingPrefix      == read_heading_prefix(currentCommentLine)
        kwordsPrefix       == read_kwords_prefix(currentCommentLine)
    IN  IF headingPrefix # None
            THEN updateHeading([self EXCEPT !.keywordsAllowed = TRUE],
                     tutorialHeading(headingPrefix, currentCommentLine),
                     comment)
        ELSE IF kwordsPrefix # None
            THEN IF ~self.keywordsAllowed
                 THEN Outcome(self,
                          addWarning(comment,
                              MsgKeywordsNoHeading \o <<58, 32>>
                                  \o Quoted(currentCommentLine)))
                 ELSE updateKeywords(self,
                          tutorialKeywords(kwordsPrefix, currentCommentLine),
                          comment)
        ELSE IF currentCommentLine # <<>>
            THEN Outcome(self, setCurrent(comment, None))
        ELSE Outcome([self EXCEPT !.keywordsAllowed = FALSE],
                     setKeywords(setHeading(comment, self.heading),
                                 keywordsToString(self)))

\* Mutant of ProcessComment_call: the block close opens the gate.
ProcessComment_call_GateOpened(self, comment) ==
    LET currentCommentLine == comment.current
        headingPrefix      == read_heading_prefix(currentCommentLine)
        kwordsPrefix       == read_kwords_prefix(currentCommentLine)
    IN  IF headingPrefix # None
            THEN updateHeading([self EXCEPT !.keywordsAllowed = TRUE],
                     tutorialHeading(headingPrefix, currentCommentLine),
                     comment)
        ELSE IF kwordsPrefix # None
            THEN IF ~self.keywordsAllowed
                 THEN Outcome(self,
                          addWarning(comment,
                              MsgKeywordsNoHeading \o <<58, 32>>
                                  \o Quoted(currentCommentLine)))
                 ELSE updateKeywords(self,
                          tutorialKeywords(kwordsPrefix, currentCommentLine),
                          comment)
        ELSE Outcome([self EXCEPT !.keywordsAllowed = TRUE],
                     setKeywords(setHeading(comment, self.heading),
                                 keywordsToString(self)))

\* ProcessComment.__call__(comment)
ProcessComment_call(self, comment) ==
    LET currentCommentLine == comment.current
        headingPrefix      == read_heading_prefix(currentCommentLine)
        kwordsPrefix       == read_kwords_prefix(currentCommentLine)
    IN  IF headingPrefix # None
            THEN updateHeading([self EXCEPT !.keywordsAllowed = TRUE],
                     tutorialHeading(headingPrefix, currentCommentLine),
                     comment)
        ELSE IF kwordsPrefix # None
            THEN IF ~self.keywordsAllowed
                 THEN Outcome(self,
                          addWarning(comment,
                              MsgKeywordsNoHeading \o <<58, 32>>
                                  \o Quoted(currentCommentLine)))
                 ELSE updateKeywords(self,
                          tutorialKeywords(kwordsPrefix, currentCommentLine),
                          comment)
        ELSE Outcome([self EXCEPT !.keywordsAllowed = FALSE],
                     setKeywords(setHeading(comment, self.heading),
                                 keywordsToString(self)))

\* ------------------------------------------------------------------------
\* The classifier (assess_processing_result)
\* ------------------------------------------------------------------------

NOT_DONE == 0

DONE == 1

WARNING == 2

ERROR == 3

\* The pair (code, object) that assess_processing_result returns: object is
\* the message (isMessage) or the Comment.
Assessed(code, isMessage, message, comment) ==
    [code |-> code, isNone |-> FALSE, isMessage |-> isMessage,
     message |-> message, comment |-> comment]

\* Mutant of assess_processing_result: an error is classified as a warning.
assess_processing_result_ErrorAsWarning(comment) ==
    IF comment.error # <<>>
        THEN Assessed(WARNING, TRUE, comment.error, Comment(0, <<>>))
    ELSE IF comment.warning # <<>>
        THEN Assessed(WARNING, TRUE, comment.warning, Comment(0, <<>>))
    ELSE IF comment.current = None
        THEN Assessed(NOT_DONE, FALSE, <<>>, comment)
    ELSE Assessed(DONE, FALSE, <<>>, comment)

\* Mutant of assess_processing_result: the still-scanning sentinel is looked
\* at before the warning.
assess_processing_result_SentinelFirst(comment) ==
    IF comment.error # <<>>
        THEN Assessed(ERROR, TRUE, comment.error, Comment(0, <<>>))
    ELSE IF comment.current = None
        THEN Assessed(NOT_DONE, FALSE, <<>>, comment)
    ELSE IF comment.warning # <<>>
        THEN Assessed(WARNING, TRUE, comment.warning, Comment(0, <<>>))
    ELSE Assessed(DONE, FALSE, <<>>, comment)

\* assess_processing_result(comment)
assess_processing_result(comment) ==
    IF comment.error # <<>>
        THEN Assessed(ERROR, TRUE, comment.error, Comment(0, <<>>))
    ELSE IF comment.warning # <<>>
        THEN Assessed(WARNING, TRUE, comment.warning, Comment(0, <<>>))
    ELSE IF comment.current = None
        THEN Assessed(NOT_DONE, FALSE, <<>>, comment)
    ELSE Assessed(DONE, FALSE, <<>>, comment)

\* ------------------------------------------------------------------------
\* Reporting (handle_error, handle_warning, display_metadata)
\* ------------------------------------------------------------------------

\* MsgAborted is the text 'Processing aborted.'
MsgAborted == <<80, 114, 111, 99, 101, 115, 115, 105, 110, 103, 32, 97, 98,
    111, 114, 116, 101, 100, 46>>

\* MsgWarningPrefix is the text 'Warning:'
MsgWarningPrefix == <<87, 97, 114, 110, 105, 110, 103, 58>>

\* MsgKeywordsLabel is the text 'Keywords: '
MsgKeywordsLabel == <<75, 101, 121, 119, 111, 114, 100, 115, 58, 32>>

\* MsgNoKeywords is the text 'Warning: failed to find any tutorial keywords.'
MsgNoKeywords == <<87, 97, 114, 110, 105, 110, 103, 58, 32, 102, 97, 105,
    108, 101, 100, 32, 116, 111, 32, 102, 105, 110, 100, 32, 97, 110, 121,
    32, 116, 117, 116, 111, 114, 105, 97, 108, 32, 107, 101, 121, 119, 111,
    114, 100, 115, 46>>

\* MsgEmptyList is the text 'AssertionError: input file names list empty.'
MsgEmptyList == <<65, 115, 115, 101, 114, 116, 105, 111, 110, 69, 114, 114,
    111, 114, 58, 32, 105, 110, 112, 117, 116, 32, 102, 105, 108, 101, 32,
    110, 97, 109, 101, 115, 32, 108, 105, 115, 116, 32, 101, 109, 112, 116,
    121, 46>>

\* MsgRaisedPrefix is the text 'AssertionError: '
MsgRaisedPrefix == <<65, 115, 115, 101, 114, 116, 105, 111, 110, 69,
    114, 114, 111, 114, 58, 32>>

\* MsgNoHeading is the text 'Found keywords but no tutorial heading.'
MsgNoHeading == <<70, 111, 117, 110, 100, 32, 107, 101, 121, 119, 111, 114,
    100, 115, 32, 98, 117, 116, 32, 110, 111, 32, 116, 117, 116, 111, 114,
    105, 97, 108, 32, 104, 101, 97, 100, 105, 110, 103, 46>>

\* handle_error(message, fileName): the text written to stderr.
handle_error(message, fileName) == fileName \o <<58>> \o message \o <<10>>

\* handle_warning(message, fileName): the text written to stderr.
handle_warning(message, fileName) ==
    MsgWarningPrefix \o fileName \o <<58>> \o message \o <<10>>

\* Mutant of display_metadata: a heading without keywords is printed without
\* the warning.
display_metadata_NoWarning(comment) ==
    LET heading  == comment.heading
        keywords == comment.keywords
    IN  IF heading # <<>> /\ keywords # <<>>
            THEN [out |-> heading \o <<10>> \o MsgKeywordsLabel \o keywords
                              \o <<10>>,
                  err |-> <<>>, raised |-> <<>>]
        ELSE IF heading # <<>> /\ keywords = <<>>
            THEN [out |-> heading \o <<10>>, err |-> <<>>, raised |-> <<>>]
        ELSE IF heading = <<>> /\ keywords # <<>>
            THEN [out |-> <<>>, err |-> <<>>, raised |-> MsgNoHeading]
        ELSE [out |-> <<>>, err |-> <<>>, raised |-> <<>>]

\* display_metadata(comment): the text written to stdout and to stderr, and
\* the message of the AssertionError raised, if any.
display_metadata(comment) ==
    LET heading  == comment.heading
        keywords == comment.keywords
    IN  IF heading # <<>> /\ keywords # <<>>
            THEN [out |-> heading \o <<10>> \o MsgKeywordsLabel \o keywords
                              \o <<10>>,
                  err |-> <<>>, raised |-> <<>>]
        ELSE IF heading # <<>> /\ keywords = <<>>
            THEN [out |-> heading \o <<10>>,
                  err |-> MsgNoKeywords \o <<10>>, raised |-> <<>>]
        ELSE IF heading = <<>> /\ keywords # <<>>
            THEN [out |-> <<>>, err |-> <<>>, raised |-> MsgNoHeading]
        ELSE [out |-> <<>>, err |-> <<>>, raised |-> <<>>]

\* ------------------------------------------------------------------------
\* Input: the lines a file may hold
\* ------------------------------------------------------------------------

\* The most files a run is given.
MaxFiles == 2

\* The most lines a file holds; readline() returns the empty string after them.
MaxLines == 3

\* Line_E1 is the text '## Tutorial #1: summary tut.1'
Line_E1 == <<35, 35, 32, 84, 117, 116, 111, 114, 105, 97, 108, 32, 35, 49,
    58, 32, 115, 117, 109, 109, 97, 114, 121, 32, 116, 117, 116, 46, 49>>

\* Line_E2 is the text '# KWords: kw1, kw2'
Line_E2 == <<35, 32, 75, 87, 111, 114, 100, 115, 58, 32, 107, 119, 49, 44,
    32, 107, 119, 50>>

\* Line_E3 is the text ' /* Tutorial #1: summary tut.1 *'
Line_E3 == <<32, 47, 42, 32, 84, 117, 116, 111, 114, 105, 97, 108, 32, 35,
    49, 58, 32, 115, 117, 109, 109, 97, 114, 121, 32, 116, 117, 116, 46,
    49, 32, 42>>

\* Line_E4 is the text ' * KWords: kw1, kw3  *'
Line_E4 == <<32, 42, 32, 75, 87, 111, 114, 100, 115, 58, 32, 107, 119, 49,
    44, 32, 107, 119, 51, 32, 32, 42>>

\* Line_E5 is the text ' * KWords: kw4  */'
Line_E5 == <<32, 42, 32, 75, 87, 111, 114, 100, 115, 58, 32, 107, 119, 52,
    32, 32, 42, 47>>

\* Line_Code is the text 'x = 1'
Line_Code == <<120, 32, 61, 32, 49>>

\* Line_Shebang is the text '#!/bin/sh'
Line_Shebang == <<35, 33, 47, 98, 105, 110, 47, 115, 104>>

\* Line_Open is the text '/*'
Line_Open == <<47, 42>>

\* Line_Star is the text ' * Tutorial #1'
Line_Star == <<32, 42, 32, 84, 117, 116, 111, 114, 105, 97, 108, 32, 35,
    49>>

\* Line_Short is the text '# Tutorial #1'
Line_Short == <<35, 32, 84, 117, 116, 111, 114, 105, 97, 108, 32, 35, 49>>

\* Line_Variant is the text '#  tutorial   #1:  Summary  TUT.1  #'
Line_Variant == <<35, 32, 32, 116, 117, 116, 111, 114, 105, 97, 108, 32,
    32, 32, 35, 49, 58, 32, 32, 83, 117, 109, 109, 97, 114, 121, 32, 32,
    84, 85, 84, 46, 49, 32, 32, 35>>

\* Line_Other is the text '# Tutorial #1 b'
Line_Other == <<35, 32, 84, 117, 116, 111, 114, 105, 97, 108, 32, 35, 49,
    32, 98>>

\* Line_Second is the text '# Tutorial #2'
Line_Second == <<35, 32, 84, 117, 116, 111, 114, 105, 97, 108, 32, 35, 50>>

\* Line_KwVariant is the text '# kwords :kw2 ,  a   b,,kw2'
Line_KwVariant == <<35, 32, 107, 119, 111, 114, 100, 115, 32, 58, 107, 119,
    50, 32, 44, 32, 32, 97, 32, 32, 32, 98, 44, 44, 107, 119, 50>>

\* Line_Text is the text '# other'
Line_Text == <<35, 32, 111, 116, 104, 101, 114>>

\* End of file, and a blank line: readline().rstrip() is empty for both.
Line_EOF == <<>>

\* The lines readline() may return.
Lines ==
    {Line_EOF, Line_E1, Line_E2, Line_E3, Line_E4, Line_E5, Line_Code,
     Line_Shebang, Line_Open, Line_Short, Line_Variant, Line_Other,
     Line_Second, Line_KwVariant, Line_Text, Line_Star}

\* The two files of the example in the header of the program.
Example == << <<Line_E1, Line_E2>>, <<Line_E3, Line_E4, Line_E5>> >>

\* Line n of file f of the example, as readline() returns it.
ExampleLine(f, n) ==
    IF f \in 1..Len(Example) /\ n \in 1..Len(Example[f])
    THEN Example[f][n] ELSE Line_EOF

\* The path of the f-th file of the run: "f1", "f2", ...
FileName(f) == <<102, 48 + f>>

\* ------------------------------------------------------------------------
\* The run (process)
\* ------------------------------------------------------------------------

VARIABLES
    pc,              \* where process() is: "files", "scan", "process", "exited"
    fileNo,          \* the number of files the for loop has opened
    next_comment,    \* the ProcessLine of the current file
    processComment,  \* the ProcessComment of the run
    comment,         \* the Comment next_comment() returned, then as updated
    processingCode,  \* the code of the last assess_processing_result
    result,          \* the local result of process()
    stdout,          \* the text written to standard output
    stderr,          \* the text the last step wrote to standard error
    status,          \* the exit status, -1 while the program runs
    line,            \* history: the line the last readline() returned
    onExample,       \* history: the input read so far is that of Example
    seen,            \* history: the headings consumed, as normalised
    accepted,        \* history: the keyword lines accepted, as comment text
    trial            \* two orders of one list of files, and what each printed

vars ==
    <<pc, fileNo, next_comment, processComment, comment, processingCode,
      result, stdout, stderr, status, line, onExample, seen, accepted, trial>>

\* What one run of process() leaves: whether it was aborted, the exit status,
\* the text on standard output, and the heading and the keywords of the
\* Comment it was to display.
Run(aborted, status_, stdout_, heading, keywords) ==
    [aborted |-> aborted, status |-> status_, stdout |-> stdout_,
     heading |-> heading, keywords |-> keywords]

\* No run yet.
NoRun == Run(FALSE, -1, <<>>, <<>>, <<>>)

\* The runs of Spec read their lines one by one and compare no two orders.
NoTrial == [files |-> <<>>, order |-> <<>>, stage |-> 0,
            first |-> NoRun, second |-> NoRun]

\* result = None
ResultNone ==
    [code |-> NOT_DONE, isNone |-> TRUE, isMessage |-> FALSE,
     message |-> <<>>, comment |-> Comment(0, <<>>)]

Init ==
    /\ pc = "files"
    /\ fileNo = 0
    /\ next_comment = NewProcessLine
    /\ processComment = NewProcessComment
    /\ comment = Comment(0, <<>>)
    /\ processingCode = NOT_DONE
    /\ result = ResultNone
    /\ stdout = <<>>
    /\ stderr = <<>>
    /\ status = -1
    /\ line = <<>>
    /\ onExample = TRUE
    /\ seen = {}
    /\ accepted = {}
    /\ trial = NoTrial

\* Mutant of OpenFile: every file starts with a fresh aggregator.
OpenFile_FreshAggregator ==
    /\ pc = "files"
    /\ fileNo < MaxFiles
    /\ fileNo' = fileNo + 1
    /\ next_comment' = NewProcessLine
    /\ processComment' = NewProcessComment
    /\ pc' = "scan"
    /\ onExample' = (onExample /\ fileNo + 1 <= Len(Example))
    /\ stderr' = <<>>
    /\ UNCHANGED <<comment, processingCode, result, stdout, status, line,
                   seen, accepted, trial>>

\* for fn in fileNames: with open(fn, 'r') as fp: next_comment = ProcessLine(fp)
OpenFile ==
    /\ pc = "files"
    /\ fileNo < MaxFiles
    /\ fileNo' = fileNo + 1
    /\ next_comment' = NewProcessLine
    /\ pc' = "scan"
    /\ onExample' = (onExample /\ fileNo + 1 <= Len(Example))
    /\ stderr' = <<>>
    /\ UNCHANGED <<processComment, comment, processingCode, result, stdout,
                   status, line, seen, accepted, trial>>

\* One readline() of next_comment(): the Comment is returned, or the line is
\* discarded and the next one is read.
ReadLine(rawLine) ==
    /\ pc = "scan"
    /\ next_comment.lineNo < MaxLines \/ rawLine = Line_EOF
    /\ LET r == readLine(next_comment, rawLine)
       IN  /\ next_comment' = r.self
           /\ IF r.again
              THEN pc' = "scan" /\ comment' = comment
              ELSE pc' = "process" /\ comment' = r.comment
    /\ line' = rawLine
    /\ onExample' =
           (onExample /\ rawLine = ExampleLine(fileNo, next_comment.lineNo + 1))
    /\ stderr' = <<>>
    /\ UNCHANGED <<fileNo, processComment, processingCode, result, stdout,
                   status, seen, accepted, trial>>

\* (processingCode, result) = assess_processing_result(processComment(...))
\* and the branch of the while loop on processingCode.
Consume ==
    /\ pc = "process"
    /\ LET o == ProcessComment_call(processComment, comment)
           a == assess_processing_result(o.comment)
           isHeading == read_heading_prefix(comment.current) # None
           isKwords  == ~isHeading /\ read_kwords_prefix(comment.current) # None
       IN  /\ processComment' = o.self
           /\ comment' = o.comment
           /\ processingCode' = a.code
           /\ result' = a
           /\ IF a.code = ERROR
              THEN /\ stderr' = handle_error(a.message, FileName(fileNo))
                                \o MsgAborted \o <<10>>
                   /\ status' = 1
                   /\ pc' = "exited"
              ELSE IF a.code = WARNING
              THEN /\ stderr' = handle_warning(a.message, FileName(fileNo))
                   /\ pc' = "scan"
                   /\ UNCHANGED status
              ELSE IF a.code = DONE
              THEN pc' = "files" /\ stderr' = <<>> /\ UNCHANGED status
              ELSE pc' = "scan" /\ stderr' = <<>> /\ UNCHANGED status
           /\ seen' = IF isHeading
                      THEN seen \cup {tutorialHeading(
                               read_heading_prefix(comment.current),
                               comment.current)}
                      ELSE seen
           /\ accepted' = IF isKwords /\ processComment.keywordsAllowed
                          THEN accepted \cup {comment.current}
                          ELSE accepted
    /\ UNCHANGED <<fileNo, next_comment, stdout, line, onExample, trial>>

\* Mutant of Finish: an empty list of files ends the run with status 0.
Finish_EmptyListOk ==
    /\ pc = "files"
    /\ pc' = "exited"
    /\ IF result.isNone
       THEN /\ stderr' = MsgEmptyList \o <<10>>
            /\ status' = 0
            /\ UNCHANGED stdout
       ELSE LET d == display_metadata(result.comment)
            IN  /\ stdout' = stdout \o d.out
                /\ IF d.raised # <<>>
                   THEN /\ stderr' = MsgRaisedPrefix \o d.raised \o <<46, 10>>
                        /\ status' = 1
                   ELSE /\ stderr' = d.err
                        /\ status' = 0
    /\ UNCHANGED <<fileNo, next_comment, processComment, comment,
                   processingCode, result, line, onExample, seen, accepted,
                   trial>>

\* The end of process(), after the last file: lines 692 to 701.
Finish ==
    /\ pc = "files"
    /\ pc' = "exited"
    /\ IF result.isNone
       THEN /\ stderr' = MsgEmptyList \o <<10>>
            /\ status' = 1
            /\ UNCHANGED stdout
       ELSE LET d == display_metadata(result.comment)
            IN  /\ stdout' = stdout \o d.out
                /\ IF d.raised # <<>>
                   THEN /\ stderr' = MsgRaisedPrefix \o d.raised \o <<46, 10>>
                        /\ status' = 1
                   ELSE /\ stderr' = d.err
                        /\ status' = 0
    /\ UNCHANGED <<fileNo, next_comment, processComment, comment,
                   processingCode, result, line, onExample, seen, accepted,
                   trial>>

Next ==
    \/ OpenFile
    \/ \E rawLine \in Lines : ReadLine(rawLine)
    \/ Consume
    \/ Finish

Spec == Init /\ [][Next]_vars

\* ------------------------------------------------------------------------
\* Two runs of process() on one list of files, in two orders
\* ------------------------------------------------------------------------

\* The files of the trials: the two of the example in the header of the
\* program, a file that writes the heading of the example in another case and
\* spacing, files with a shorter and with a longer heading, a file whose
\* keywords come before its heading, a file whose comment comes after code, a
\* file of another tutorial, a file with no metadata, and a block comment.
OrderFiles ==
    {<<Line_E1, Line_E2>>,
     <<Line_E3, Line_E4, Line_E5>>,
     <<Line_Variant, Line_KwVariant>>,
     <<Line_Short, Line_E2>>,
     <<Line_Other>>,
     <<Line_E2, Line_Short>>,
     <<Line_Code, Line_Short>>,
     <<Line_Second>>,
     <<Line_Shebang, Line_Text>>,
     <<Line_Open, Line_Star>>}

\* The orders of n files: the one-to-one maps of 1..n onto itself.
Orders(n) ==
    {p \in [1..n -> 1..n] : \A i, j \in 1..n : p[i] = p[j] => i = j}

\* The list of files in the order p.
Reordered(files, p) == [i \in 1..Len(files) |-> files[p[i]]]

\* The lists of 1 to MaxFiles files, each with an order to compare it with.
Trials ==
    UNION {{[files |-> fs, order |-> p, stage |-> 0,
             first |-> NoRun, second |-> NoRun] :
                fs \in [1..n -> OrderFiles], p \in Orders(n)} :
           n \in 1..MaxFiles}

\* fileNames of the run under way: the list as given, then in the other order.
fileNames ==
    IF trial.stage = 0 THEN trial.files
    ELSE Reordered(trial.files, trial.order)

\* What readline() returns next from the file that is open.
TrialLine ==
    LET fp == fileNames[fileNo]
        n  == next_comment.lineNo + 1
    IN  IF n <= Len(fp) THEN fp[n] ELSE Line_EOF

\* What the run that has exited leaves.
RunLeft ==
    Run(processingCode = ERROR, status, stdout,
        IF result.isNone THEN <<>> ELSE result.comment.heading,
        IF result.isNone THEN <<>> ELSE result.comment.keywords)

OrderInit ==
    /\ pc = "files"
    /\ fileNo = 0
    /\ next_comment = NewProcessLine
    /\ processComment = NewProcessComment
    /\ comment = Comment(0, <<>>)
    /\ processingCode = NOT_DONE
    /\ result = ResultNone
    /\ stdout = <<>>
    /\ stderr = <<>>
    /\ status = -1
    /\ line = <<>>
    /\ onExample = TRUE
    /\ seen = {}
    /\ accepted = {}
    /\ trial \in Trials

\* The for loop opens the next file of the list.
OrderOpenFile ==
    /\ trial.stage < 2
    /\ fileNo < Len(fileNames)
    /\ OpenFile

\* readline() returns the next line of the file that is open.
OrderReadLine ==
    /\ trial.stage < 2
    /\ pc = "scan"
    /\ ReadLine(TrialLine)

OrderConsume ==
    /\ trial.stage < 2
    /\ Consume

\* The for loop has gone through the list.
OrderFinish ==
    /\ trial.stage < 2
    /\ fileNo = Len(fileNames)
    /\ Finish

\* The run on the list as given has exited: the program is started again on
\* the list in the other order.
StartSecondOrder ==
    /\ trial.stage = 0
    /\ pc = "exited"
    /\ trial' = [trial EXCEPT !.first = RunLeft, !.stage = 1]
    /\ pc' = "files"
    /\ fileNo' = 0
    /\ next_comment' = NewProcessLine
    /\ processComment' = NewProcessComment
    /\ comment' = Comment(0, <<>>)
    /\ processingCode' = NOT_DONE
    /\ result' = ResultNone
    /\ stdout' = <<>>
    /\ stderr' = <<>>
    /\ status' = -1
    /\ line' = <<>>
    /\ onExample' = TRUE
    /\ seen' = {}
    /\ accepted' = {}

\* The run on the list in the other order has exited.
EndSecondOrder ==
    /\ trial.stage = 1
    /\ pc = "exited"
    /\ trial' = [trial EXCEPT !.second = RunLeft, !.stage = 2]
    /\ UNCHANGED <<pc, fileNo, next_comment, processComment, comment,
                   processingCode, result, stdout, stderr, status, line,
                   onExample, seen, accepted>>

OrderNext ==
    \/ OrderOpenFile
    \/ OrderReadLine
    \/ OrderConsume
    \/ OrderFinish
    \/ StartSecondOrder
    \/ EndSecondOrder

OrderSpec == OrderInit /\ [][OrderNext]_vars

\* ------------------------------------------------------------------------
\* Properties
\* ------------------------------------------------------------------------

\* The aggregator is about to consume a heading line.
FeedsHeading ==
    pc = "process" /\ read_heading_prefix(comment.current) # None

\* The heading of the line the aggregator is about to consume.
FedHeading ==
    tutorialHeading(read_heading_prefix(comment.current), comment.current)

\* Neither heading is, in lower case, a prefix of the other.
Unrelated(a, b) ==
    /\ ~StartsWith(lower(a), lower(b))
    /\ ~StartsWith(lower(b), lower(a))

\* The text sub occurs in the text s.
Contains(s, sub) ==
    \E i \in 0..(Len(s) - Len(sub)) : StartsWith(DropFirst(s, i), sub)

\* The number of line terminators in the text s.
LineCount(s) == Cardinality({i \in 1..Len(s) : s[i] = 10})

\* The run ended by the fatal error of the per-file loop.
Aborted == pc = "exited" /\ processingCode = ERROR

\* ExpectedOutput is the text
\* 'Tutorial #1: summary tut.1\nKeywords: kw1, kw2, kw3, kw4\n'
ExpectedOutput == <<84, 117, 116, 111, 114, 105, 97, 108, 32, 35, 49, 58,
    32, 115, 117, 109, 109, 97, 114, 121, 32, 116, 117, 116, 46, 49, 10,
    75, 101, 121, 119, 111, 114, 100, 115, 58, 32, 107, 119, 49, 44, 32,
    107, 119, 50, 44, 32, 107, 119, 51, 44, 32, 107, 119, 52, 10>>

\* C1: a run whose input is the two files of the example ends with exit
\* status 0 and with the heading and the four keywords kw1, kw2, kw3, kw4 on
\* standard output.
C1_ExampleOutput ==
    (pc = "exited" /\ onExample /\ fileNo = Len(Example))
        => (status = 0 /\ stdout = ExpectedOutput)

\* C2 as stated: when exactly one heading X has been consumed and a heading
\* Y is consumed next, and one is in lower case a prefix of the other, the
\* stored heading becomes the one that is the prefix; there is neither
\* warning nor error when X is the prefix.
C2_ShorterKept_Original ==
    [][ (FeedsHeading /\ Cardinality(seen) = 1)
        => \A X \in seen :
             /\ StartsWith(lower(FedHeading), lower(X))
                  => /\ processComment'.heading = X
                     /\ comment'.warning = <<>>
                     /\ comment'.error = <<>>
             /\ StartsWith(lower(X), lower(FedHeading))
                  => /\ processComment'.heading = FedHeading
                     /\ comment'.error = <<>> ]_vars

\* C2 amended: as above, but when the two headings are equal in lower case
\* the heading consumed first is kept; the warning is produced exactly when
\* the second heading is strictly shorter.
C2_ShorterKept ==
    [][ (FeedsHeading /\ Cardinality(seen) = 1)
        => \A X \in seen :
             /\ StartsWith(lower(FedHeading), lower(X))
                  => /\ processComment'.heading = X
                     /\ comment'.warning = <<>>
                     /\ comment'.error = <<>>
                     /\ processingCode' = NOT_DONE
                     /\ stderr' = <<>>
             /\ (StartsWith(lower(X), lower(FedHeading))
                   /\ lower(X) # lower(FedHeading))
                  => /\ processComment'.heading = FedHeading
                     /\ comment'.error = <<>>
                     /\ processingCode' = WARNING
                     /\ LineCount(stderr') = 1
                     /\ Contains(stderr', MsgShorterHeading) ]_vars

\* C2 witness: a longer heading was consumed, then a strictly shorter one
\* that replaced it with a warning.
C2_Witness ==
    /\ Cardinality(seen) = 2
    /\ processingCode = WARNING
    /\ Contains(stderr, MsgShorterHeading)
    /\ \E X \in seen : /\ X # processComment.heading
                       /\ StartsWith(lower(X), processComment.headingLC)

\* C3: when exactly one heading X has been consumed and a heading Y is
\* consumed next, and neither is in lower case a prefix of the other, the
\* step reports an error that names both headings and the run ends with a
\* non-zero status and nothing on standard output.
C3_UnrelatedFatal ==
    [][ (FeedsHeading /\ Cardinality(seen) = 1)
        => \A X \in seen :
             Unrelated(X, FedHeading)
               => /\ processingCode' = ERROR
                  /\ Contains(stderr', Quoted(X))
                  /\ Contains(stderr', Quoted(FedHeading))
                  /\ pc' = "exited"
                  /\ status' # 0
                  /\ stdout' = <<>> ]_vars

\* C3 witness: the run was aborted by the second of two unrelated headings.
C3_Witness ==
    /\ Aborted
    /\ status = 1
    /\ Cardinality(seen) = 2
    /\ \E X, Y \in seen : Unrelated(X, Y)

\* C4: as soon as two of the headings consumed are unrelated, the run is
\* aborted with a non-zero status and has printed nothing.
C4_PairwiseCompatible ==
    (\E X, Y \in seen : Unrelated(X, Y))
        => (pc = "exited" /\ status # 0 /\ stdout = <<>>)

\* C5: while the run is not aborted, the stored heading is in lower case a
\* prefix of every heading consumed, and is in lower case one of them.
C5_CanonicalIsPrefix ==
    (~Aborted /\ seen # {})
        => /\ \A X \in seen :
                StartsWith(lower(X), lower(processComment.heading))
           /\ \E X \in seen : lower(X) = lower(processComment.heading)

\* C5 witness: three headings were consumed, two of them longer than the
\* stored one, and the run goes on.
C5_Witness ==
    /\ ~Aborted
    /\ Cardinality(seen) = 3
    /\ Cardinality({X \in seen : Len(X) > Len(processComment.heading)}) = 2

\* The text of a keyword line after its first colon.
AfterColon(text) ==
    DropFirst(text,
        CHOOSE i \in 1..Len(text) :
            text[i] = 58 /\ \A j \in 1..(i - 1) : text[j] # 58)

\* The maximal comma-free pieces of the text s.
Pieces(s) ==
    { SubSeq(s, p[1], p[2]) :
        p \in { q \in (1..(Len(s) + 1)) \X (0..Len(s)) :
                  /\ q[2] >= q[1] - 1
                  /\ \A k \in q[1]..q[2] : s[k] # 44
                  /\ (q[1] = 1 \/ s[q[1] - 1] = 44)
                  /\ (q[2] = Len(s) \/ s[q[2] + 1] = 44) } }

\* The distinct, whitespace-normalised, non-empty terms of a keyword line.
Terms(text) == { normalise_text(p) : p \in Pieces(AfterColon(text)) } \ {<<>>}

\* The terms of all the keyword lines accepted so far.
AcceptedTerms == UNION { Terms(text) : text \in accepted }

\* C6_Rendering is the text 'a b, kw1, kw2'
C6_Rendering == <<97, 32, 98, 44, 32, 107, 119, 49, 44, 32, 107, 119, 50>>

\* C6: the keyword set is the set of the distinct normalised non-empty terms
\* of the keyword lines accepted, whatever their order, repetition and
\* spacing, and the rendering finalized at a block close lists them in
\* increasing order, joined by a comma and a space.
C6_KeywordRendering ==
    LET q == sorted(processComment.keywordsSet)
    IN  /\ processComment.keywordsSet = AcceptedTerms
        /\ Len(q) = Cardinality(AcceptedTerms)
        /\ \A i \in 1..Len(q) : \A j \in (i + 1)..Len(q) : StrLess(q[i], q[j])
        /\ (pc = "files" /\ processingCode = DONE)
              => comment.keywords = join(<<44, 32>>, q)

\* C6 witness: two keyword lines that hold the same term in another order,
\* a repeated term and a term with inner spacing were accepted, and the
\* block was closed.
C6_Witness ==
    /\ pc = "files"
    /\ processingCode = DONE
    /\ Cardinality(accepted) = 2
    /\ comment.keywords = C6_Rendering

\* The aggregator is about to consume a keyword line with the gate closed.
FeedsKeywordsUngated ==
    /\ pc = "process"
    /\ read_heading_prefix(comment.current) = None
    /\ read_kwords_prefix(comment.current) # None
    /\ ~processComment.keywordsAllowed

\* C7: a keyword line consumed with the gate closed leaves the keyword set,
\* the heading and the gate as they are, writes one warning line, and the
\* scan of the same file goes on with its next line.
C7_KeywordsBeforeHeading ==
    [][ FeedsKeywordsUngated
        => /\ processComment' = processComment
           /\ processingCode' = WARNING
           /\ LineCount(stderr') = 1
           /\ StartsWith(stderr', MsgWarningPrefix)
           /\ Contains(stderr', comment.current)
           /\ pc' = "scan"
           /\ fileNo' = fileNo
           /\ next_comment' = next_comment ]_vars

\* C7 witness: a keyword line was consumed with the gate closed and was
\* answered by the warning; the scan of the file goes on.
C7_Witness ==
    /\ pc = "scan"
    /\ processingCode = WARNING
    /\ Contains(stderr, MsgKeywordsNoHeading)
    /\ comment.lineNo = next_comment.lineNo
    /\ ~processComment.keywordsAllowed
    /\ processComment.heading # <<>>
    /\ accepted = {}

\* The step closes the block of the current file.
ClosesBlock == pc = "process" /\ pc' = "files"

\* C8: the gate is false at the start, it becomes true only by the
\* consumption of a heading line and false only by a block close, every
\* heading line sets it and every block close clears it, and it is false
\* whenever the scan of a file starts.
C8_Gate ==
    /\ ~processComment.keywordsAllowed
    /\ [](next_comment.lineNo = 0 => ~processComment.keywordsAllowed)
    /\ [][ /\ FeedsHeading => processComment'.keywordsAllowed
           /\ ClosesBlock => ~processComment'.keywordsAllowed
           /\ (~processComment.keywordsAllowed
                 /\ processComment'.keywordsAllowed) => FeedsHeading
           /\ (processComment.keywordsAllowed
                 /\ ~processComment'.keywordsAllowed) => ClosesBlock ]_vars

\* C8 witness: the scan of the second file starts after the first file gave
\* the heading, and the gate is false.
C8_Witness ==
    /\ pc = "scan"
    /\ fileNo = 2
    /\ next_comment.lineNo = 0
    /\ processComment.heading # <<>>
    /\ ~processComment.keywordsAllowed

\* The line just read is the first line of its file and matches none of
\* the six comment openers.
FirstLineNoComment ==
    next_comment.lineNo = 1 /\ is_comment(rstrip(line)) = NoMatch

\* C9: a first line that matches no comment opener is returned with empty
\* text, closes the block with neither error nor warning, leaves the
\* heading and the keyword set as they were, and no other line of the file
\* is read.
C9_SkippedFile ==
    [][ /\ (pc = "scan" /\ pc' = "scan") => ~FirstLineNoComment'
        /\ (pc = "process" /\ FirstLineNoComment)
             => /\ comment.current = <<>>
                /\ processingCode' = DONE
                /\ pc' = "files"
                /\ stderr' = <<>>
                /\ comment'.error = <<>>
                /\ comment'.warning = <<>>
                /\ processComment'.heading = processComment.heading
                /\ processComment'.headingLC = processComment.headingLC
                /\ processComment'.keywordsSet = processComment.keywordsSet
        /\ (pc = "files" /\ FirstLineNoComment)
             => (next_comment' = next_comment
                   \/ (fileNo' = fileNo + 1 /\ next_comment'.lineNo = 0)) ]_vars

\* C9 witness: the second file was skipped on its first line, which is not
\* a comment, and the heading and keywords of the first file are kept.
C9_Witness ==
    /\ pc = "files"
    /\ fileNo = 2
    /\ line = Line_Code
    /\ FirstLineNoComment
    /\ processComment.heading # <<>>
    /\ processComment.keywordsSet # {}
    /\ comment.keywords # <<>>

\* The decimal text of the natural number n.
RECURSIVE DecimalText(_)
DecimalText(n) ==
    IF n < 10 THEN <<48 + n>> ELSE DecimalText(n \div 10) \o <<48 + (n % 10)>>

\* LineLabel is the text 'Line '
LineLabel == <<76, 105, 110, 101, 32>>

\* What C10 says precedes the message: "<file-path>:Line <n>: ".
LinePrefix(f, n) ==
    FileName(f) \o <<58>> \o LineLabel \o DecimalText(n) \o <<58, 32>>

\* C10: what the per-file loop writes to standard error starts with the
\* file path and the number of the line that caused it, after "Warning:"
\* for a warning.
C10_DiagnosticHasLine ==
    [][ (pc = "process" /\ stderr' # <<>>)
        => IF processingCode' = WARNING
           THEN StartsWith(stderr',
                    MsgWarningPrefix \o LinePrefix(fileNo, comment.lineNo))
           ELSE StartsWith(stderr', LinePrefix(fileNo, comment.lineNo)) ]_vars

\* The heading about to be consumed is unrelated to the stored heading: the
\* irreconcilable heading conflict.
FeedsConflict ==
    /\ FeedsHeading
    /\ processComment.heading # <<>>
    /\ Unrelated(FedHeading, processComment.heading)

\* The run ends on an empty list of file names.
EndsOnEmptyList == pc = "files" /\ fileNo = 0 /\ pc' = "exited"

\* C11: nothing is written to standard output while the run goes on; a
\* heading conflict in any file, and an empty list of files, end the run at
\* once with a non-zero status and with nothing on standard output.
C11_FatalNoOutput ==
    /\ [](pc # "exited" => (stdout = <<>> /\ status = -1))
    /\ []((pc = "exited" /\ (Aborted \/ fileNo = 0))
            => (status > 0 /\ stdout = <<>>))
    /\ [][ /\ FeedsConflict
              => (pc' = "exited" /\ Aborted' /\ status' > 0 /\ stdout' = <<>>)
           /\ EndsOnEmptyList => (status' > 0 /\ stdout' = <<>>) ]_vars

\* C11 witness: the second file brought a conflicting heading after the
\* first file gave a heading and keywords; the run is aborted with nothing
\* on standard output.
C11_Witness ==
    /\ Aborted
    /\ fileNo = 2
    /\ status = 1
    /\ stdout = <<>>
    /\ processComment.heading # <<>>
    /\ processComment.keywordsSet # {}
    /\ comment.error # <<>>

\* The rendering of all the keyword terms accepted so far, in any file.
UnionRendering == join(<<44, 32>>, sorted(AcceptedTerms))

\* C12: the aggregator is the same from one file to the next, the keyword
\* set never loses a member, the record finalized at every block close
\* carries the terms accepted in all the files read so far, and a run that
\* does not abort prints those of all its files.
C12_KeywordUnion ==
    /\ [][ /\ processComment.keywordsSet \subseteq processComment'.keywordsSet
           /\ (pc = "files" /\ pc' = "scan")
                => processComment' = processComment ]_vars
    /\ []((pc = "files" /\ fileNo > 0)
            => /\ comment.keywords = UnionRendering
               /\ ~result.isNone
               /\ result.comment = comment)
    /\ []((pc = "exited" /\ ~Aborted /\ AcceptedTerms # {})
            => /\ status = 0
               /\ stdout = processComment.heading \o <<10>>
                             \o MsgKeywordsLabel \o UnionRendering \o <<10>>)

\* C12 witness: two files were read, neither can hold more than MaxLines - 1
\* keyword lines after its heading, MaxLines keyword lines were accepted in
\* all, and the run printed the list.
C12_Witness ==
    /\ pc = "exited"
    /\ status = 0
    /\ fileNo = 2
    /\ Cardinality(accepted) = 3
    /\ Contains(stdout, MsgKeywordsLabel)

\* C13: a run that is not aborted, in which a heading was consumed and no
\* keyword term was accepted in any file, ends with the stored heading alone
\* on standard output, the one-line warning about missing keywords on
\* standard error, and exit status 0.
C13_HeadingOnly ==
    (pc = "exited" /\ ~Aborted /\ seen # {} /\ AcceptedTerms = {})
        => /\ stdout = processComment.heading \o <<10>>
           /\ stderr = MsgNoKeywords \o <<10>>
           /\ status = 0

\* C13 witness: two files were read, a heading was consumed and no keyword
\* line was accepted; the run ended with the heading printed.
C13_Witness ==
    /\ pc = "exited"
    /\ fileNo = 2
    /\ seen # {}
    /\ accepted = {}
    /\ status = 0
    /\ LineCount(stdout) = 1
    /\ LineCount(stderr) = 1

\* C14: a run that ends has status 0 or 1. When files were given and no
\* heading was consumed, the status is 0 and standard output is empty; when
\* no file was given, or the run was aborted by a heading conflict, the
\* status is not 0; in every other case it is 0.
C14_ExitStatus ==
    pc = "exited"
        => /\ status \in {0, 1}
           /\ (fileNo > 0 /\ seen = {}) => (status = 0 /\ stdout = <<>>)
           /\ (fileNo = 0 \/ Aborted) => status # 0
           /\ ~(fileNo = 0 \/ Aborted) => status = 0
           /\ Aborted => (comment.error # <<>> /\ Contains(stderr, MsgDifferent))

\* C14 witness: two files were read, none gave a heading, and the run ended
\* with status 0 and nothing on standard output.
C14_Witness ==
    /\ pc = "exited"
    /\ fileNo = 2
    /\ seen = {}
    /\ status = 0
    /\ stdout = <<>>
    /\ stderr = <<>>

\* The scanner after a first line l that is a comment opener: its profile.
ProfileOf(l) ==
    LET mark == is_comment(rstrip(l)).mark
    IN  [NewProcessLine EXCEPT
            !.borderCommentRE = define_comment_border_regex(mark),
            !.isSecondComment = secondary_comment_matcher(mark)]

\* The line l is a comment opener, not the shebang line, with no text left
\* once the opener and the border are removed.
DecorativeOpener(l) ==
    /\ is_comment(rstrip(l)) # NoMatch
    /\ TakeFirst(rstrip(l), 3) # <<35, 33, 47>>
    /\ commentText(ProfileOf(l), rstrip(l), is_comment(rstrip(l))) = <<>>

\* The comment text of the line l under the continuation rule of the
\* profile of opener; None when l does not match the rule.
ContinuationText(opener, l) ==
    commentText(ProfileOf(opener), rstrip(l),
        MatchSecondary(ProfileOf(opener).isSecondComment, rstrip(l)))

\* C15: when the first line of a file is a decorative opener, it is
\* discarded, and a second line that matches the continuation rule of its
\* profile with some text left is returned with that text as comment text.
C15_DecorativeOpener ==
    [][ (pc = "scan" /\ next_comment.lineNo = 1 /\ DecorativeOpener(line)
           /\ next_comment'.lineNo = 2
           /\ ContinuationText(line, line') \notin {None, <<>>})
        => /\ pc' = "process"
           /\ comment'.current = ContinuationText(line, line') ]_vars

\* The line l begins, after optional whitespace, with a mark of the family
\* of the opener mark: the same mark character for the single-mark
\* families, "*" or the full opening mark for the block families.
BeginsWithFamily(mark, l) ==
    LET rest == lstrip(l)
    IN  IF TakeFirst(mark, 1) \in {<<35>>, <<59>>}
            THEN StartsWith(rest, TakeFirst(mark, 1))
        ELSE IF TakeFirst(mark, 2) \in {<<45, 45>>, <<47, 47>>}
            THEN StartsWith(rest, TakeFirst(mark, 2))
        ELSE StartsWith(rest, <<42>>) \/ StartsWith(rest, TakeFirst(mark, 2))

\* The step reads a line that is not blank while the profile of the file is
\* established.
ReadsUnderProfile ==
    /\ pc = "scan"
    /\ next_comment.isSecondComment # NoMatcher
    /\ next_comment'.lineNo = next_comment.lineNo + 1
    /\ rstrip(line') # <<>>

\* The line the step read did not close the block: it was returned with
\* some comment text, or discarded for the next line.
ContinuationAccepted == pc' = "scan" \/ comment'.current # <<>>

\* C16: under an established profile, a line that is not blank is accepted
\* as a continuation exactly when it begins with a mark of the family of the
\* opener, whatever the number of mark characters on either line.
C16_ContinuationFamily ==
    [][ ReadsUnderProfile
        => (ContinuationAccepted
              <=> BeginsWithFamily(next_comment.isSecondComment.mark, line'))
      ]_vars

\* The line the step reads ends the comment block: it is blank (or past
\* the end of the file), or no profile is established and it matches no
\* comment opener, or it does not match the continuation rule of the
\* established profile.
ReadsClosingLine ==
    /\ pc = "scan"
    /\ next_comment'.lineNo = next_comment.lineNo + 1
    /\ \/ rstrip(line') = <<>>
       \/ /\ next_comment.isSecondComment = NoMatcher
          /\ is_comment(rstrip(line')) = NoMatch
       \/ /\ next_comment.isSecondComment # NoMatcher
          /\ MatchSecondary(next_comment.isSecondComment, rstrip(line'))
               = NoMatch

FeedsOtherText ==
    /\ pc = "process"
    /\ comment.current # <<>>
    /\ read_heading_prefix(comment.current) = None
    /\ read_kwords_prefix(comment.current) = None

\* The step reads no line of the current file: its scan is over.
FileOver ==
    \/ next_comment' = next_comment
    \/ fileNo' = fileNo + 1 /\ next_comment' = NewProcessLine

\* C18: a comment line that is neither a heading line nor a keyword line
\* closes the block of the file: the gate is cleared, the heading and the
\* keyword set stay as they are, the record carries the stored heading and
\* the sorted rendering of the keyword set, the loop of the file ends, and
\* no further line of the file is read.
C18_OtherTextCloses ==
    [][ /\ FeedsOtherText
           => /\ processingCode' = DONE
              /\ pc' = "files"
              /\ processComment' =
                    [processComment EXCEPT !.keywordsAllowed = FALSE]
              /\ comment'.heading = processComment.heading
              /\ comment'.keywords =
                    join(<<44, 32>>, sorted(processComment.keywordsSet))
              /\ seen' = seen
              /\ accepted' = accepted
              /\ next_comment' = next_comment
        /\ pc = "files" => FileOver ]_vars

\* C18 witness: the second line of the second file is a comment line that
\* is neither heading nor keywords; it closed the block after the heading
\* of the file, with the keywords of the first file in the record, and the
\* third line of the file is left unread.
C18_Witness ==
    /\ pc = "files"
    /\ processingCode = DONE
    /\ fileNo = 2
    /\ next_comment.lineNo = 2
    /\ next_comment.lineNo < MaxLines
    /\ line = Line_Text
    /\ comment.current # <<>>
    /\ comment.heading # <<>>
    /\ comment.keywords # <<>>
    /\ ~processComment.keywordsAllowed

\* The steps a run may still take: 0 once it has exited, and otherwise what
\* the files not yet opened and the lines of the current file not yet read
\* allow, each line giving one call of the scanner and one of the
\* aggregator.
StepsLeft ==
    IF pc = "exited" THEN 0
    ELSE (MaxFiles - fileNo) * (2 * MaxLines + 4) + 1
           + (IF pc = "scan"
                 THEN 2 * (MaxLines + 1 - next_comment.lineNo) + 1
              ELSE IF pc = "process"
                 THEN 2 * (MaxLines + 1 - next_comment.lineNo) + 2
              ELSE 0)

\* C19: a run cannot go on for ever, since every step decreases StepsLeft,
\* which is a natural number. Every call of the scanner reads one more line
\* of the file, and at the end of the file it returns the record that
\* closes the block; a warning leaves the loop of the file running; the
\* loop ends by DONE, which moves on to the next file, or by ERROR, which
\* ends the run, and by nothing else. The end of the file can always be
\* read, and the run can always end after a file.
C19_Terminates ==
    /\ [](StepsLeft \in Nat)
    /\ [](pc = "scan" => ENABLED ReadLine(Line_EOF))
    /\ [](pc = "files" => ENABLED Finish)
    /\ [][ /\ StepsLeft' < StepsLeft
           /\ pc = "scan" => next_comment'.lineNo = next_comment.lineNo + 1
           /\ (pc = "scan" /\ next_comment.lineNo >= MaxLines)
                => (pc' = "process" /\ comment'.current = <<>>)
           /\ (pc = "process" /\ processingCode' \in {WARNING, NOT_DONE})
                => (pc' = "scan" /\ fileNo' = fileNo
                      /\ next_comment' = next_comment)
           /\ (pc = "process" /\ pc' = "files") <=>
                (pc = "process" /\ processingCode' = DONE)
           /\ (pc = "process" /\ pc' = "exited") <=>
                (pc = "process" /\ processingCode' = ERROR) ]_vars

\* C19 witness: the run ended after its last file was read to its end, past
\* a warning in that file.
C19_Witness ==
    /\ pc = "exited"
    /\ status = 0
    /\ StepsLeft = 0
    /\ fileNo = MaxFiles
    /\ next_comment.lineNo = MaxLines + 1
    /\ line = Line_EOF
    /\ Cardinality(seen) = 2
    /\ processComment.heading # <<>>

\* Records with and without an error, a warning, a text and the sentinel,
\* those with both an error and a warning included.
SampleRecords ==
    { [Comment(1, cur) EXCEPT !.error = e, !.warning = w] :
        cur \in {None, <<>>, <<120>>},
        e \in {<<>>, <<69>>},
        w \in {<<>>, <<87>>} }

\* The pair a is the classification of the record c by strict priority:
\* error, then warning, then the still-scanning sentinel, then DONE.
Classified(c, a) ==
    IF c.error # <<>>
        THEN a.code = ERROR /\ a.isMessage /\ a.message = c.error
    ELSE IF c.warning # <<>>
        THEN a.code = WARNING /\ a.isMessage /\ a.message = c.warning
    ELSE IF c.current = None
        THEN a.code = NOT_DONE /\ ~a.isMessage /\ a.comment = c
    ELSE a.code = DONE /\ ~a.isMessage /\ a.comment = c

\* C20: assess_processing_result classifies every record by that priority;
\* the record the aggregator returns is classified so, the four codes are
\* distinct, and the record never carries both an error and a warning.
C20_Classification ==
    /\ [](/\ \A c \in SampleRecords :
                Classified(c, assess_processing_result(c))
          /\ Cardinality({NOT_DONE, DONE, WARNING, ERROR}) = 4)
    /\ [][ pc = "process"
           => /\ Classified(comment', result')
              /\ processingCode' = result'.code
              /\ ~result'.isNone
              /\ ~(comment'.error # <<>> /\ comment'.warning # <<>>) ]_vars

\* C20 witness: the aggregator returned a record that carries a warning and
\* whose text is the still-scanning sentinel; it was classified WARNING.
C20_Witness ==
    /\ pc = "scan"
    /\ comment.lineNo = next_comment.lineNo
    /\ comment.current = None
    /\ comment.warning # <<>>
    /\ comment.error = <<>>
    /\ processingCode = WARNING
    /\ result.isMessage
    /\ result.message = comment.warning

\* C21: the step in which the reconciliation of a heading fails leaves the
\* stored heading, its lower-case form and the keyword set as they were; the
\* record it returns has the comment text it came with, not the sentinel,
\* has the error and no warning, and has no finalized heading or keywords.
C21_FailureLeavesState ==
    [][ (pc = "process" /\ (FeedsConflict \/ comment'.error # <<>>))
        => /\ FeedsConflict
           /\ comment'.error # <<>>
           /\ processComment'.heading = processComment.heading
           /\ processComment'.headingLC = processComment.headingLC
           /\ processComment'.keywordsSet = processComment.keywordsSet
           /\ comment'.current = comment.current
           /\ comment'.current # None
           /\ comment'.warning = <<>>
           /\ comment'.heading = <<>>
           /\ comment'.keywords = <<>> ]_vars

\* C21 witness: after a heading and keywords, and a shorter heading that
\* replaced the first, a third heading failed; the record still holds its
\* heading line and the aggregate holds the second heading and the keywords.
C21_Witness ==
    /\ Aborted
    /\ Cardinality(seen) = 3
    /\ comment.error # <<>>
    /\ comment.warning = <<>>
    /\ read_heading_prefix(comment.current) # None
    /\ comment.heading = <<>>
    /\ processComment.heading \in seen
    /\ processComment.heading # FedHeading
    /\ processComment.keywordsSet # {}

\* TutorialSpace is the text 'Tutorial '
TutorialSpace == <<84, 117, 116, 111, 114, 105, 97, 108, 32>>

\* The comment text t with its whitespace normalised and in lower case: two
\* texts that differ only in letter case and in the amount of whitespace
\* have the same.
Folded(t) == lower(normalise_text(t))

\* The comment texts of the heading lines readline() may return.
HeadingTexts ==
    { t \in { readLine(NewProcessLine, l).comment.current : l \in Lines } :
        read_heading_prefix(t) # None }

\* The heading lines with the same folded text as the heading line t give
\* the same heading as t in lower case.
FoldedTextsAgree(t) ==
    \A t2 \in HeadingTexts :
        Folded(t) = Folded(t2)
          => lower(tutorialHeading(read_heading_prefix(t), t))
               = lower(tutorialHeading(read_heading_prefix(t2), t2))

\* The heading line about to be consumed differs from the stored heading
\* only in letter case and in the amount of whitespace.
FeedsSameHeading ==
    /\ FeedsHeading
    /\ processComment.heading # <<>>
    /\ Folded(comment.current) = Folded(processComment.heading)

\* C22: heading lines that differ only in letter case or in the amount of
\* whitespace give headings that are equal in lower case, and consuming one
\* of them when the other is stored changes neither the stored heading nor
\* the keyword set and gives neither warning nor error; the stored heading
\* is the capitalised token, one space and the rest with its whitespace
\* collapsed.
C22_CaseAndSpaceFolded ==
    /\ [][ FeedsHeading => FoldedTextsAgree(comment.current) ]_vars
    /\ [](processComment.heading # <<>>
            => /\ StartsWith(processComment.heading, TutorialSpace)
               /\ normalise_text(processComment.heading)
                    = processComment.heading
               /\ processComment.headingLC = lower(processComment.heading)
               /\ Len(processComment.heading) > Len(TutorialSpace))
    /\ [][ FeedsSameHeading
           => /\ processComment'.heading = processComment.heading
              /\ processComment'.headingLC = processComment.headingLC
              /\ processComment'.keywordsSet = processComment.keywordsSet
              /\ comment'.warning = <<>>
              /\ comment'.error = <<>>
              /\ processingCode' = NOT_DONE
              /\ stderr' = <<>>
              /\ pc' = "scan" ]_vars

\* C22 witness: a heading line was consumed that is written in another
\* letter case and with other whitespace than the stored heading, which it
\* left as it was; the scan goes on without a warning.
C22_Witness ==
    /\ pc = "scan"
    /\ processingCode = NOT_DONE
    /\ comment.current = None
    /\ comment.warning = <<>>
    /\ Cardinality(seen) = 2
    /\ \A X \in seen : lower(X) = processComment.headingLC
    /\ line # <<>>
    /\ read_heading_prefix(readLine(NewProcessLine, line).comment.current)
         # None
    /\ readLine(NewProcessLine, line).comment.current
         # normalise_text(readLine(NewProcessLine, line).comment.current)

\* C23: when the keyword set is not empty, the stored heading is not empty,
\* and the gate is open only with a stored heading; no record carries
\* keywords without a heading, so the record display_metadata is given never
\* makes it raise, and the message of that AssertionError is never written.
C23_NoKeywordsWithoutHeading ==
    /\ processComment.keywordsSet # {} => processComment.heading # <<>>
    /\ processComment.keywordsAllowed => processComment.heading # <<>>
    /\ accepted # {} => seen # {}
    /\ comment.keywords # <<>> => comment.heading # <<>>
    /\ ~result.isNone
         => /\ result.comment.keywords # <<>> => result.comment.heading # <<>>
            /\ display_metadata(result.comment).raised = <<>>
    /\ ~Contains(stderr, MsgNoHeading)
    /\ (pc = "exited" /\ status # 0) => (Aborted \/ fileNo = 0)

\* C23 witness: the run read one file to its end, accepted one keyword line
\* after a heading, and printed the heading and the keywords.
C23_Witness ==
    /\ pc = "exited"
    /\ status = 0
    /\ fileNo = 1
    /\ next_comment.lineNo = MaxLines + 1
    /\ Cardinality(accepted) = 1
    /\ processComment.keywordsSet # {}
    /\ processComment.heading # <<>>
    /\ Contains(stdout, MsgKeywordsLabel)


\* C24: the order of the files does not matter. When the program is run on
\* one list of files in two orders and neither run is aborted, both runs
\* print the same keyword list and headings that are equal when compared in
\* lower case, and both end with the same exit status.
C24_OrderIndependent ==
    (trial.stage = 2 /\ ~trial.first.aborted /\ ~trial.second.aborted)
        => /\ trial.first.keywords = trial.second.keywords
           /\ lower(trial.first.heading) = lower(trial.second.heading)
           /\ lower(trial.first.stdout) = lower(trial.second.stdout)
           /\ trial.first.status = trial.second.status

\* C24 witness: two different files were run in both orders, neither run was
\* aborted, both printed keywords, and the two headings printed differ in
\* the case of their letters only.
C24_Witness ==
    /\ trial.stage = 2
    /\ Len(trial.files) = 2
    /\ trial.files[1] # trial.files[2]
    /\ trial.order = <<2, 1>>
    /\ ~trial.first.aborted /\ ~trial.second.aborted
    /\ trial.first.status = 0 /\ trial.second.status = 0
    /\ trial.first.keywords # <<>>
    /\ trial.first.heading # trial.second.heading
    /\ Contains(trial.second.stdout, MsgKeywordsLabel)


\* C25: once the stored heading is not empty it is never empty again, its
\* length never increases, and it changes only in a step of the aggregator
\* that makes it strictly shorter, keeps it a prefix of the heading it
\* replaces in lower case, and writes the 'will use new shorter heading'
\* warning to standard error.
C25_HeadingOnlyShrinks ==
    [][ processComment.heading # <<>>
        => /\ processComment'.heading # <<>>
           /\ Len(processComment'.heading) <= Len(processComment.heading)
           /\ processComment'.headingLC = lower(processComment'.heading)
           /\ processComment'.heading # processComment.heading
                  => /\ pc = "process" /\ pc' = "scan"
                     /\ Len(processComment'.heading)
                            < Len(processComment.heading)
                     /\ StartsWith(processComment.headingLC,
                                   processComment'.headingLC)
                     /\ processingCode' = WARNING
                     /\ Contains(stderr', MsgWarningPrefix)
                     /\ Contains(stderr', MsgShorterHeading
                                    \o Quoted(processComment'.heading)) ]_vars

\* C25 witness: the step just taken replaced a longer heading of the run by
\* the stored one and wrote the warning that names it.
C25_Witness ==
    /\ pc = "scan"
    /\ processingCode = WARNING
    /\ Contains(stderr, MsgShorterHeading \o Quoted(processComment.heading))
    /\ processComment.heading \in seen
    /\ \E h \in seen :
           /\ Len(h) > Len(processComment.heading)
           /\ StartsWith(lower(h), processComment.headingLC)

====
